---- MODULE Spec2Model ----
(***************************************************************************)
(* bin-voter.py: N equally long binary dumps are reconciled into one       *)
(* output file by a per-offset majority vote (_attempt_vote), with a       *)
(* null-exclusion retry and an interactive prompt (get_voted_byte), driven *)
(* chunk by chunk by create_corrected_firmware.                            *)
(*                                                                         *)
(* The bytes of the input files are environment input: every byte is read  *)
(* exactly once, so the column at an offset is drawn when the driver       *)
(* builds bytes_at_position.  Fractions (threshold, margin) are pairs      *)
(* <<numerator, denominator>> compared by cross-multiplication.            *)
(***************************************************************************)
EXTENDS Integers, Sequences, FiniteSets, TLC

\* ---------------------------------------------------------------- bounds
\* At most MaxFiles input files of at most MaxLen bytes each, holding at most
\* MaxInput bytes together.
MaxFiles == 3
MaxLen == 3
MaxInput == 6

\* Representative byte values: 0x00, 0xAA, 0xBB.
Null == 0
Bytes == {Null, 170, 187}
\* A value no byte can take: an unbound Python local.
Unbound == 255 + 1

\* --threshold values in [0,1] (argparse check, line 248).
Thresholds == {<<0, 1>>, <<1, 2>>, <<2, 3>>, <<1, 1>>}
\* --margin: None (the default) or a fraction >= 0 (line 249).
None == <<>>
Margins == {None, <<1, 1>>, <<2, 1>>}
\* --chunk-size > 0 (line 250): sizes that divide the file length, that do
\* not, and that exceed it.
ChunkSizes == {1, 2}
\* What the output path holds before the run when it already exists.
StaleData == [k \in 1..(MaxLen + 1) |-> Null]

\* What an operator may type at the prompt, as character sequences.
Digits == <<"0", "1", "2", "3", "4", "5", "6", "7", "8", "9">>
Choices ==
    { <<>>, <<"x">>, <<"1", ".">>, <<"0">>, <<"4">>, <<"-", "1">>, <<"1", "0">>,
      <<"1">>, <<"2">>, <<"3">>, <<"+", "2">>, <<" ", "1">> }

VARIABLES
    num_files, threshold, margin, ignore_nulls, interactive, chunk_size,
    report_file,
    output,
    pc, first_file_size, bytes_processed, chunk_len, i,
    bytes_at_position, discrepancy_count, report_data, most_common_int,
    attempts, voted, outcome, how, choice_str,
    exit_status, error

config == <<num_files, threshold, margin, ignore_nulls, interactive,
            chunk_size, report_file>>
offsetvars == <<bytes_at_position, most_common_int, attempts, voted, outcome,
                how, choice_str>>
loopvars == <<first_file_size, bytes_processed, chunk_len, i>>
vars == <<config, output, pc, loopvars, offsetvars, discrepancy_count,
          report_data, exit_status, error>>

\* ------------------------------------------------------- pure functions
Min(a, b) == IF a <= b THEN a ELSE b

Count(byte_list, b) == Cardinality({k \in DOMAIN byte_list : byte_list[k] = b})

Values(byte_list) == {byte_list[k] : k \in DOMAIN byte_list}

\* The keys of Counter(byte_list), in order of first occurrence.
RECURSIVE Keys(_)
Keys(byte_list) ==
    IF byte_list = <<>> THEN <<>>
    ELSE LET rest == Keys(SubSeq(byte_list, 1, Len(byte_list) - 1))
             b == byte_list[Len(byte_list)]
         IN IF \E k \in DOMAIN rest : rest[k] = b THEN rest ELSE Append(rest, b)

\* Counter(byte_list).items(): <<byte, count>> pairs in insertion order.
Counter(byte_list) ==
    LET keys == Keys(byte_list)
    IN [k \in DOMAIN keys |-> <<keys[k], Count(byte_list, keys[k])>>]

\* Variant: the sort without reverse=True (ascending by count).
InsertByCount_ascending(ranked, item) ==
    LET p == Cardinality({k \in DOMAIN ranked : ranked[k][2] <= item[2]})
    IN SubSeq(ranked, 1, p) \o <<item>> \o SubSeq(ranked, p + 1, Len(ranked))

\* One step of the stable descending sort: the item goes after every item
\* whose count is at least its own.
InsertByCount(ranked, item) ==
    LET p == Cardinality({k \in DOMAIN ranked : ranked[k][2] >= item[2]})
    IN SubSeq(ranked, 1, p) \o <<item>> \o SubSeq(ranked, p + 1, Len(ranked))

\* Counter.most_common(): sorted by count, descending, stable.
RECURSIVE most_common(_)
most_common(items) ==
    IF items = <<>> THEN <<>>
    ELSE InsertByCount(most_common(SubSeq(items, 1, Len(items) - 1)),
                       items[Len(items)])

\* ------------------------------------------------------- _attempt_vote
Result(kind, byte, via) == [kind |-> kind, byte |-> byte, via |-> via]
NoResult == Result("none", Unbound, "")

\* Variant: a tie is seen only between exactly two candidates.
IsTie_two_way(most_common_list) ==
    /\ Len(most_common_list) = 2
    /\ most_common_list[1][2] = most_common_list[2][2]

\* Line 31: the two top-ranked candidates have equal counts.
IsTie(most_common_list) ==
    /\ Len(most_common_list) > 1
    /\ most_common_list[1][2] = most_common_list[2][2]

\* Variant: agreement > threshold (meeting the bar exactly fails).
AgreementMet_strict(winner_count, n, thr) == winner_count * thr[2] > thr[1] * n

\* Lines 41-44: agreement = winner_count / num_files; agreement >= threshold.
AgreementMet(winner_count, n, thr) == winner_count * thr[2] >= thr[1] * n

\* Variant: calculated_margin > margin (meeting the margin exactly fails).
MarginMet_strict(winner_count, runner_up_count, mar) ==
    (winner_count - runner_up_count) * mar[2] > mar[1] * runner_up_count

\* Lines 51-52: (winner_count - runner_up_count) / runner_up_count >= margin.
MarginMet(winner_count, runner_up_count, mar) ==
    (winner_count - runner_up_count) * mar[2] >= mar[1] * runner_up_count

\* Lines 64-67: the error message divides by runner_up_count unguarded.
MessageDividesByZero(most_common_list, mar) ==
    /\ mar # None
    /\ Len(most_common_list) > 1
    /\ most_common_list[2][2] = 0

attempt_vote(byte_list, n, thr, mar) ==
    LET most_common_list == most_common(Counter(byte_list))
        most_common_byte == most_common_list[1][1]
        winner_count == most_common_list[1][2]
    IN IF byte_list = <<>> THEN Result("InvalidInput", Unbound, "")
       ELSE IF IsTie(most_common_list) THEN Result("TieConflict", Unbound, "")
       ELSE IF AgreementMet(winner_count, n, thr)
            THEN Result("Resolved", most_common_byte, "threshold")
       ELSE IF /\ mar # None
               /\ Len(most_common_list) > 1
               /\ most_common_list[2][2] > 0
               /\ MarginMet(winner_count, most_common_list[2][2], mar)
            THEN Result("Resolved", most_common_byte, "margin")
       ELSE IF MessageDividesByZero(most_common_list, mar)
            THEN Result("ZeroDivisionError", Unbound, "")
       ELSE Result("ThresholdConflict", Unbound, "")

\* ------------------------------------------------------ get_voted_byte
\* Line 90: the column without its 0x00 entries.
FilterNulls(byte_list) == SelectSeq(byte_list, LAMBDA b : b # Null)

\* Variant: the retry takes the filtered column's length as num_files.
retry_vote_filtered_len(byte_list, n, thr, mar) ==
    attempt_vote(FilterNulls(byte_list), Len(FilterNulls(byte_list)), thr, mar)

\* Line 97: the retry votes on the filtered column with the original num_files.
retry_vote(byte_list, n, thr, mar) ==
    attempt_vote(FilterNulls(byte_list), n, thr, mar)

\* Variant: the prompt ranks the column without its 0x00 entries.
sorted_candidates_filtered(byte_list) ==
    most_common(Counter(FilterNulls(byte_list)))

\* Lines 106-107: the prompt ranks the original column.
sorted_candidates(byte_list) == most_common(Counter(byte_list))

\* int(choice_str): surrounding blanks stripped, an optional sign, then
\* decimal digits only; anything else raises ValueError.
RECURSIVE Strip(_)
Strip(s) ==
    IF s = <<>> THEN s
    ELSE IF s[1] = " " THEN Strip(SubSeq(s, 2, Len(s)))
    ELSE IF s[Len(s)] = " " THEN Strip(SubSeq(s, 1, Len(s) - 1))
    ELSE s

DigitValue(c) == CHOOSE d \in 0..9 : Digits[d + 1] = c

RECURSIVE Decimal(_)
Decimal(ds) ==
    IF ds = <<>> THEN 0
    ELSE 10 * Decimal(SubSeq(ds, 1, Len(ds) - 1)) + DigitValue(ds[Len(ds)])

int(entry) ==
    LET s == Strip(entry)
        signed == s # <<>> /\ s[1] \in {"+", "-"}
        ds == IF signed THEN SubSeq(s, 2, Len(s)) ELSE s
        ok == ds # <<>> /\ \A k \in DOMAIN ds : \E d \in DOMAIN Digits : Digits[d] = ds[k]
    IN IF ~ok THEN [ok |-> FALSE, value |-> 0]
       ELSE [ok |-> TRUE,
             value |-> IF signed /\ s[1] = "-" THEN 0 - Decimal(ds) ELSE Decimal(ds)]

\* Lines 116-117: choice_idx = int(choice_str) - 1 and 0 <= choice_idx < len.
ValidChoice(entry, candidates) ==
    /\ int(entry).ok
    /\ 0 <= int(entry).value - 1
    /\ int(entry).value - 1 < Len(candidates)

\* Line 118: sorted_candidates[choice_idx][0] (0-based in the source).
chosen_byte(entry, candidates) == candidates[(int(entry).value - 1) + 1][1]

\* -------------------------------------------- create_corrected_firmware
\* Variant: the test of line 178 without its negation.
AllEqual_inverted(col) == \E k \in DOMAIN col : col[k] # col[1]

\* Line 178: all(b == bytes_at_position[0] for b in bytes_at_position).
AllEqual(col) == \A k \in DOMAIN col : col[k] = col[1]

\* Line 171: what fh.read(chunk_size) returns at position pos of a file of
\* the given size.
ChunkLength(size, pos, chunk) == Min(chunk, size - pos)

\* Variant: the output opened with 'ab', which keeps what the file held.
OpenForAppending(file) == [exists |-> TRUE, data |-> file.data]

\* Line 168: open(output_file, 'wb') creates or truncates the file.
OpenForWriting(file) == [exists |-> TRUE, data |-> <<>>]

\* Line 196: out_f.write(...) appends one byte.
WriteTo(file, b) == [file EXCEPT !.data = Append(@, b)]

\* Variant: the handler closes the output and does not remove it.
Remove_close_only(file) == file

\* Lines 207-208: out_f.close(); os.remove(output_file).
Remove(file) == [exists |-> FALSE, data |-> <<>>]

\* Lines 187-192: one row of the discrepancy report.
ReportRow(offset, winner) == [offset |-> offset, winning_byte |-> winner]

\* os.path.getsize of an input file: its size, or Missing when the file
\* does not exist (FileNotFoundError).
Missing == MaxLen + 1
FileSizes(n) == 0..(IF MaxLen <= MaxInput \div n THEN MaxLen ELSE MaxInput \div n)

\* Lines 143-153: the first problem met while the sizes are compared.
SizeCheck(sizes) ==
    LET bad == {k \in DOMAIN sizes : sizes[k] = Missing \/ sizes[k] # sizes[1]}
        first == CHOOSE k \in bad : \A j \in bad : k <= j
    IN IF bad = {} THEN "ok"
       ELSE IF sizes[first] = Missing THEN "FileNotFound"
       ELSE "SizeMismatch"

Init ==
    /\ num_files \in 1..MaxFiles
    /\ threshold \in Thresholds
    /\ margin \in Margins
    /\ ignore_nulls \in BOOLEAN
    /\ interactive \in BOOLEAN
    /\ chunk_size \in ChunkSizes
    /\ report_file \in BOOLEAN
    /\ output \in {[exists |-> FALSE, data |-> <<>>],
                   [exists |-> TRUE, data |-> StaleData]}
    /\ pc = "Validating"
    /\ first_file_size = 0
    /\ bytes_processed = 0
    /\ chunk_len = 0
    /\ i = 0
    /\ bytes_at_position = <<>>
    /\ discrepancy_count = 0
    /\ report_data = <<>>
    /\ most_common_int = Unbound
    /\ attempts = 0
    /\ voted = <<>>
    /\ outcome = NoResult
    /\ how = "none"
    /\ choice_str = <<>>
    /\ exit_status = Unbound
    /\ error = "none"

\* The locals of one offset, before bytes_at_position is built.
ClearOffset ==
    /\ bytes_at_position' = <<>>
    /\ most_common_int' = Unbound
    /\ attempts' = 0
    /\ voted' = <<>>
    /\ outcome' = NoResult
    /\ how' = "none"
    /\ choice_str' = <<>>

\* The process ends with an exit status.
Exit(state, status, err) ==
    /\ pc' = state
    /\ exit_status' = status
    /\ error' = err

\* The process ends early: of its state only the exit status, the offset it
\* stopped at and the files remain.
Die(state, status, err) ==
    /\ Exit(state, status, err)
    /\ ClearOffset
    /\ discrepancy_count' = 0
    /\ report_data' = <<>>

\* Lines 138-140: the output exists and --force was not given: sys.exit(1).
\* force is read here only (and for a message at line 159), so it is an input
\* of the validation and no variable.
OutputExistsError ==
    /\ pc = "Validating"
    /\ \E force \in BOOLEAN : output.exists /\ ~force
    /\ Exit("Exited", 1, "OutputExists")
    /\ UNCHANGED <<config, output, loopvars, offsetvars, discrepancy_count,
                   report_data>>

\* Lines 142-153: a missing input or inputs of different sizes: the function
\* prints the error and returns, and the script ends normally.
SizeError ==
    /\ pc = "Validating"
    /\ \E force \in BOOLEAN,
          sizes \in [1..num_files -> FileSizes(num_files) \cup {Missing}] :
        /\ ~(output.exists /\ ~force)
        /\ SizeCheck(sizes) # "ok"
        /\ Exit("Exited", 0, SizeCheck(sizes))
    /\ UNCHANGED <<config, output, loopvars, offsetvars, discrepancy_count,
                   report_data>>

\* Lines 138-163: every precondition holds.
Validated ==
    /\ pc = "Validating"
    /\ \E force \in BOOLEAN,
          sizes \in [1..num_files -> FileSizes(num_files) \cup {Missing}] :
        /\ ~(output.exists /\ ~force)
        /\ SizeCheck(sizes) = "ok"
        /\ first_file_size' = sizes[1]
    /\ pc' = "OpenInputs"
    /\ UNCHANGED <<config, output, bytes_processed, chunk_len, i, offsetvars,
                   discrepancy_count, report_data, exit_status, error>>

\* Line 166: the input files are opened.
OpenInputs ==
    /\ pc = "OpenInputs"
    /\ pc' = "OpenOutput"
    /\ UNCHANGED <<config, output, loopvars, offsetvars, discrepancy_count,
                   report_data, exit_status, error>>

\* Lines 168-169: the output is created or truncated.
OpenOutput ==
    /\ pc = "OpenOutput"
    /\ output' = OpenForWriting(output)
    /\ bytes_processed' = 0
    /\ pc' = "Loop"
    /\ UNCHANGED <<config, first_file_size, chunk_len, i, offsetvars,
                   discrepancy_count, report_data, exit_status, error>>

\* Lines 170-172: one chunk is read from every file.  The files are as long
\* as validated, so the chunks are never all empty and line 172 never breaks.
ReadChunk ==
    /\ pc = "Loop"
    /\ bytes_processed < first_file_size
    /\ chunk_len' = ChunkLength(first_file_size, bytes_processed, chunk_size)
    /\ i' = 0
    /\ pc' = "Column"
    /\ UNCHANGED <<config, output, first_file_size, bytes_processed,
                   offsetvars, discrepancy_count, report_data, exit_status,
                   error>>

\* Lines 170, 213-226: the loop ends and the run completes.
Complete ==
    /\ pc = "Loop"
    /\ ~(bytes_processed < first_file_size)
    /\ Exit("Completed", 0, "none")
    /\ UNCHANGED <<config, output, loopvars, offsetvars, discrepancy_count,
                   report_data>>

\* Lines 174-178, 193-194: the column is identical in every file.
FastPath ==
    /\ pc = "Column"
    /\ \E col \in [1..num_files -> Bytes] :
        /\ AllEqual(col)
        /\ bytes_at_position' = col
        /\ most_common_int' = col[1]
    /\ attempts' = 0
    /\ voted' = <<>>
    /\ outcome' = NoResult
    /\ how' = "fast"
    /\ choice_str' = <<>>
    /\ pc' = "Write"
    /\ UNCHANGED <<config, output, loopvars, discrepancy_count, report_data,
                   exit_status, error>>

\* Lines 174-180: the files disagree; get_voted_byte is called.
Discrepancy ==
    /\ pc = "Column"
    /\ \E col \in [1..num_files -> Bytes] :
        /\ ~AllEqual(col)
        /\ bytes_at_position' = col
    /\ discrepancy_count' = discrepancy_count + 1
    /\ attempts' = 0
    /\ voted' = <<>>
    /\ outcome' = NoResult
    /\ how' = "none"
    /\ choice_str' = <<>>
    /\ pc' = "Vote"
    /\ UNCHANGED <<config, output, loopvars, report_data, most_common_int,
                   exit_status, error>>

\* Lines 84-85: the vote on the full column succeeds.
VoteResolved ==
    LET r == attempt_vote(bytes_at_position, num_files, threshold, margin)
    IN /\ pc = "Vote"
       /\ r.kind = "Resolved"
       /\ attempts' = attempts + 1
       /\ voted' = bytes_at_position
       /\ outcome' = r
       /\ most_common_int' = r.byte
       /\ how' = "vote"
       /\ pc' = "Write"
       /\ UNCHANGED <<config, output, loopvars, bytes_at_position, choice_str,
                      discrepancy_count, report_data, exit_status, error>>

\* Lines 86-87: the vote on the full column fails.
VoteFailed ==
    LET r == attempt_vote(bytes_at_position, num_files, threshold, margin)
    IN /\ pc = "Vote"
       /\ r.kind # "Resolved"
       /\ attempts' = attempts + 1
       /\ voted' = bytes_at_position
       /\ outcome' = r
       /\ pc' = IF ignore_nulls /\ Null \in Values(bytes_at_position)
                THEN "Retry" ELSE "Escalate"
       /\ UNCHANGED <<config, output, loopvars, bytes_at_position, choice_str,
                      most_common_int, how, discrepancy_count, report_data,
                      exit_status, error>>

\* Lines 90-97: the retry without 0x00 succeeds.  The column disagrees, so
\* the filtered column is never empty and line 92 is never reached.
RetryResolved ==
    LET r == retry_vote(bytes_at_position, num_files, threshold, margin)
    IN /\ pc = "Retry"
       /\ r.kind = "Resolved"
       /\ attempts' = attempts + 1
       /\ voted' = FilterNulls(bytes_at_position)
       /\ outcome' = r
       /\ most_common_int' = r.byte
       /\ how' = "retry"
       /\ pc' = "Write"
       /\ UNCHANGED <<config, output, loopvars, bytes_at_position, choice_str,
                      discrepancy_count, report_data, exit_status, error>>

\* Lines 98-99: the retry fails; its error replaces the first one.
RetryFailed ==
    LET r == retry_vote(bytes_at_position, num_files, threshold, margin)
    IN /\ pc = "Retry"
       /\ r.kind # "Resolved"
       /\ attempts' = attempts + 1
       /\ voted' = FilterNulls(bytes_at_position)
       /\ outcome' = r
       /\ pc' = "Escalate"
       /\ UNCHANGED <<config, output, loopvars, bytes_at_position, choice_str,
                      most_common_int, how, discrepancy_count, report_data,
                      exit_status, error>>

\* Lines 102-111: interactive: the candidates are listed.
BeginPrompt ==
    /\ pc = "Escalate"
    /\ interactive
    /\ pc' = "Prompt"
    /\ UNCHANGED <<config, output, loopvars, offsetvars, discrepancy_count,
                   report_data, exit_status, error>>

\* Lines 125-126, 202-209: not interactive: the ValueError reaches the
\* driver's handler, which removes the output and exits with status 1.
ConflictAbort ==
    /\ pc = "Escalate"
    /\ ~interactive
    /\ output' = Remove(output)
    /\ Die("Aborted", 1, outcome.kind)
    /\ UNCHANGED <<config, loopvars>>

\* Lines 113-124: an entry that is no number of the list is rejected with a
\* message and the prompt repeats: nothing the program reads again changes.
PromptInvalid ==
    /\ pc = "Prompt"
    /\ \E entry \in Choices :
        ~ValidChoice(entry, sorted_candidates(bytes_at_position))
    /\ UNCHANGED vars

\* Lines 115-120: a valid entry selects the candidate of that rank.
PromptValid ==
    /\ pc = "Prompt"
    /\ \E entry \in Choices :
        /\ ValidChoice(entry, sorted_candidates(bytes_at_position))
        /\ choice_str' = entry
        /\ most_common_int' =
               chosen_byte(entry, sorted_candidates(bytes_at_position))
    /\ how' = "prompt"
    /\ pc' = "Write"
    /\ UNCHANGED <<config, output, loopvars, bytes_at_position, attempts,
                   voted, outcome, discrepancy_count, report_data,
                   exit_status, error>>

\* Line 115: input() raises EOFError when standard input ends.  Neither
\* handler (line 123, line 202) catches it: the with block closes the output,
\* which stays as written so far, and the interpreter exits with status 1.
PromptEOF ==
    /\ pc = "Prompt"
    /\ Die("Crashed", 1, "EOFError")
    /\ UNCHANGED <<config, output, loopvars>>

\* Lines 186-198: the report row (for a discrepancy, when a report is asked
\* for), the byte written, and the step to the next offset or chunk.  The
\* offset's locals are dead from here on: the next column overwrites them.
WriteByte ==
    /\ pc = "Write"
    /\ report_data' =
           IF ~AllEqual(bytes_at_position) /\ report_file
           THEN Append(report_data,
                       ReportRow(bytes_processed + i, most_common_int))
           ELSE report_data
    /\ output' = WriteTo(output, most_common_int)
    /\ i' = i + 1
    /\ IF i + 1 < chunk_len
       THEN /\ pc' = "Column"
            /\ UNCHANGED bytes_processed
       ELSE /\ pc' = "Loop"
            /\ bytes_processed' = bytes_processed + chunk_len
    /\ ClearOffset
    /\ UNCHANGED <<config, first_file_size, chunk_len, discrepancy_count,
                   exit_status, error>>

Streaming == {"Loop", "Column", "Vote", "Retry", "Escalate", "Prompt", "Write"}

\* Lines 202-209: KeyboardInterrupt while the output is open: the handler
\* removes the output and exits with status 1.
Interrupt ==
    /\ pc \in Streaming
    /\ output' = Remove(output)
    /\ Die("Aborted", 1, "KeyboardInterrupt")
    /\ UNCHANGED <<config, loopvars>>

\* Lines 166, 202-207: KeyboardInterrupt before line 168 has bound out_f: the
\* handler's out_f.close() raises UnboundLocalError, nothing is removed and
\* the interpreter exits with status 1.
InterruptBeforeOutput ==
    /\ pc \in {"OpenInputs", "OpenOutput"}
    /\ Die("Crashed", 1, "UnboundLocalError")
    /\ UNCHANGED <<config, output, loopvars>>

Next ==
    \/ OutputExistsError
    \/ SizeError
    \/ Validated
    \/ OpenInputs
    \/ OpenOutput
    \/ ReadChunk
    \/ Complete
    \/ FastPath
    \/ Discrepancy
    \/ VoteResolved
    \/ VoteFailed
    \/ RetryResolved
    \/ RetryFailed
    \/ BeginPrompt
    \/ ConflictAbort
    \/ PromptInvalid
    \/ PromptValid
    \/ PromptEOF
    \/ WriteByte
    \/ Interrupt
    \/ InterruptBeforeOutput

Spec == Init /\ [][Next]_vars

\* ================================================================ claims
\* Notions the claims are stated in, defined without the model's operators.
Occ(col, b) == Cardinality({k \in DOMAIN col : col[k] = b})
Held(col) == {col[k] : k \in DOMAIN col}
Shared(col) == \A j, k \in DOMAIN col : col[j] = col[k]
\* b is the one strictly most frequent value of col.
UniqueTop(col, b) ==
    b \in Held(col) /\ \A c \in Held(col) \ {b} : Occ(col, b) > Occ(col, c)
\* Two values share the highest count of col.
TopTied(col) ==
    \E b, c \in Held(col) :
        /\ b # c
        /\ Occ(col, b) = Occ(col, c)
        /\ \A d \in Held(col) : Occ(col, d) <= Occ(col, b)
\* The highest count among the values of col other than b (0 if none).
RunnerUp(col, b) ==
    IF Held(col) = {b} THEN 0
    ELSE CHOOSE n \in 1..Len(col) :
            /\ \E c \in Held(col) \ {b} : Occ(col, c) = n
            /\ \A c \in Held(col) \ {b} : Occ(col, c) <= n
RECURSIVE NonNull(_)
NonNull(col) ==
    IF col = <<>> THEN <<>>
    ELSE IF col[1] = Null THEN NonNull(Tail(col))
    ELSE <<col[1]>> \o NonNull(Tail(col))
FirstAt(col, b) == CHOOSE k \in DOMAIN col : col[k] = b /\ \A j \in 1..(k - 1) : col[j] # b
\* The 1-based rank of b among the values of col: by count, descending, and
\* among equal counts by first occurrence.
RankOf(col, b) ==
    1 + Cardinality({c \in Held(col) \ {b} :
            \/ Occ(col, c) > Occ(col, b)
            \/ Occ(col, c) = Occ(col, b) /\ FirstAt(col, c) < FirstAt(col, b)})
Voted == outcome.kind # "none"
Failed == outcome.kind \in {"TieConflict", "ThresholdConflict"}
Below(col, b) == Occ(col, b) * threshold[2] < threshold[1] * num_files

\* The state and the step parts of C1.
C1_AbortState ==
    /\ (pc = "Escalate" /\ ~interactive) =>
          (ENABLED ConflictAbort /\ ~ENABLED BeginPrompt /\ ~ENABLED WriteByte)
    /\ pc = "Aborted" =>
          /\ ~output.exists
          /\ exit_status # Unbound /\ exit_status # 0
          /\ error \in {"TieConflict", "ThresholdConflict", "KeyboardInterrupt"}
          /\ ~ENABLED Next
C1_AbortStep ==
    /\ (pc = "Escalate" /\ ~interactive) => pc' = "Aborted"
    /\ (pc \in Streaming /\ pc' \notin Streaming \cup {"Completed", "Crashed"}) =>
          (pc' = "Aborted" /\ ~output'.exists /\ UNCHANGED <<bytes_processed, i>>)
C2_PreconditionFailureExitsNonZero ==
    pc = "Exited" =>
        /\ exit_status # 0
        /\ bytes_processed = 0 /\ i = 0
        /\ ~(output.exists /\ output.data # StaleData)

\* The state and the step parts of C3.
C3_FastState ==
    (bytes_at_position # <<>> /\ Shared(bytes_at_position)) =>
        /\ pc = "Write"
        /\ how = "fast"
        /\ attempts = 0
        /\ most_common_int = bytes_at_position[1]
C3_FastStep ==
    /\ (pc = "Column" /\ pc' \in Streaming /\ Shared(bytes_at_position')) =>
          /\ pc' = "Write"
          /\ discrepancy_count' = discrepancy_count
          /\ report_data' = report_data
    /\ (pc = "Write" /\ Shared(bytes_at_position) /\ pc' \in Streaming) =>
          /\ output'.data = Append(output.data, bytes_at_position[1])
          /\ discrepancy_count' = discrepancy_count
          /\ report_data' = report_data
\* C3: at an offset where all files hold the same byte, that byte is written,
\* the vote is not invoked, the discrepancy count is not incremented and no
\* report row is appended.
C3_FastPathCopies == []C3_FastState /\ [][C3_FastStep]_vars
\* The fast path decided an offset of a run that had a discrepancy before.
C3_Witness ==
    /\ pc = "Write"
    /\ how = "fast"
    /\ num_files >= 2
    /\ discrepancy_count >= 1
    /\ report_file

\* C4: a vote on a column with a unique top value b resolves to b whenever
\* count(b) / num_files >= threshold, with num_files the original file count
\* also for a filtered column; below the threshold and with no margin
\* configured it fails with ThresholdConflict.
C4_AgreementOverNumFiles ==
    Voted =>
        \A b \in Held(voted) :
            UniqueTop(voted, b) =>
                /\ ~Below(voted, b) =>
                      (outcome.kind = "Resolved" /\ outcome.byte = b)
                /\ (Below(voted, b) /\ margin = None) =>
                      outcome.kind = "ThresholdConflict"
\* All files but one agree, below the threshold, no margin: ThresholdConflict.
C4_Witness ==
    /\ Voted
    /\ margin = None
    /\ Len(voted) = num_files
    /\ \E b \in Held(voted) : Occ(voted, b) = num_files - 1 /\ Below(voted, b)
    /\ outcome.kind = "ThresholdConflict"

\* C5: a vote on a column whose two top values have equal counts fails with
\* TieConflict, whatever the threshold and the margin.
C5_TieAlwaysConflicts ==
    (Voted /\ TopTied(voted)) => outcome.kind = "TieConflict"
\* A tie whose count meets the threshold, with a margin configured.
C5_Witness ==
    /\ Voted
    /\ TopTied(voted)
    /\ margin # None
    /\ \E b \in Held(voted) :
           /\ \A d \in Held(voted) : Occ(voted, d) <= Occ(voted, b)
           /\ ~Below(voted, b)
           /\ threshold[1] > 0
    /\ outcome.kind = "TieConflict"

\* C6: below the threshold, a configured margin decides the vote when there
\* is a runner-up: resolved exactly when (winner - runnerUp) / runnerUp >=
\* margin; with no margin or a single value the vote fails with
\* ThresholdConflict (and never by a division by zero).
C6_MarginFallback ==
    /\ Voted =>
          \A b \in Held(voted) :
              (UniqueTop(voted, b) /\ Below(voted, b)) =>
                  LET r == RunnerUp(voted, b)
                      met == (Occ(voted, b) - r) * margin[2] >= margin[1] * r
                  IN IF margin # None /\ r > 0 /\ met
                     THEN outcome = Result("Resolved", b, "margin")
                     ELSE outcome.kind = "ThresholdConflict"
    /\ outcome.via = "margin" =>
          /\ margin # None
          /\ \E b \in Held(voted) :
                 UniqueTop(voted, b) /\ Below(voted, b) /\ RunnerUp(voted, b) > 0
\* The margin is met exactly and resolves a vote the threshold had failed.
C6_Witness ==
    /\ Voted
    /\ outcome.via = "margin"
    /\ \E b \in Held(voted) :
           /\ UniqueTop(voted, b)
           /\ Below(voted, b)
           /\ (Occ(voted, b) - RunnerUp(voted, b)) * margin[2]
                  = margin[1] * RunnerUp(voted, b)

\* The state and the step parts of C7.
C7_RetryState ==
    /\ attempts <= 2
    /\ pc = "Retry" =>
          /\ attempts = 1
          /\ Failed
          /\ ignore_nulls
          /\ Null \in Held(bytes_at_position)
    /\ attempts = 2 =>
          /\ ignore_nulls
          /\ Null \in Held(bytes_at_position)
          /\ voted = NonNull(bytes_at_position)
          /\ outcome = attempt_vote(voted, num_files, threshold, margin)
          /\ pc \in {"Write", "Escalate", "Prompt"}
    /\ (attempts = 2 /\ outcome.kind = "Resolved") =>
          (pc = "Write" /\ how = "retry" /\ most_common_int = outcome.byte)
    /\ (attempts = 2 /\ pc \in {"Escalate", "Prompt"}) => Failed
    /\ (attempts = 1 /\ pc \in {"Escalate", "Prompt"}) =>
          ~(ignore_nulls /\ Null \in Held(bytes_at_position))
C7_RetryStep ==
    /\ pc = "Retry" => pc' \in {"Write", "Escalate", "Aborted"}
    /\ pc \in {"Escalate", "Prompt"} => pc' \notin {"Vote", "Retry"}
    /\ (pc = "Escalate" /\ pc' = "Aborted" /\ error' # "KeyboardInterrupt") =>
          error' = outcome.kind
\* C7: the retry without 0x00 runs only after a failed vote, only with
\* ignore_nulls set and a 0x00 in the column; it votes once on the column
\* without its 0x00 entries, with the original num_files; its result stands
\* and the vote is never attempted a third time.
C7_RetryIsTerminal == []C7_RetryState /\ [][C7_RetryStep]_vars
\* The retry failed although the winner fills the whole filtered column.
C7_Witness ==
    /\ attempts = 2
    /\ pc = "Escalate"
    /\ outcome.kind = "ThresholdConflict"
    /\ Len(voted) < num_files
    /\ \E b \in Held(voted) : Occ(voted, b) = Len(voted)

\* The state and the step parts of C8.
C8_PromptState ==
    /\ pc = "Prompt" => (interactive /\ Failed)
    /\ how = "prompt" =>
          /\ interactive
          /\ Failed
          /\ int(choice_str).ok
          /\ int(choice_str).value \in 1..Cardinality(Held(bytes_at_position))
          /\ most_common_int \in Held(bytes_at_position)
          /\ RankOf(bytes_at_position, most_common_int) = int(choice_str).value
    /\ interactive => error \notin {"TieConflict", "ThresholdConflict"}
C8_PromptStep ==
    /\ (pc = "Escalate" /\ interactive) =>
          (pc' = "Prompt" \/ error' = "KeyboardInterrupt")
    /\ (pc = "Escalate" /\ ~interactive) =>
          (pc' = "Aborted" /\ exit_status' # 0)
    /\ (pc = "Prompt" /\ pc' \in Streaming) => (pc' = "Write" /\ how' = "prompt")
\* C8: with the prompt enabled a failed vote is put to the operator: the
\* ranked candidates of the unfiltered column, numbered from 1; only an entry
\* that is a number of the list is accepted, and it resolves the offset to
\* the candidate of that rank whatever the threshold and the margin, so no
\* conflict aborts the run.  With the prompt disabled the failure is fatal.
C8_OperatorChoiceResolves == []C8_PromptState /\ [][C8_PromptStep]_vars
\* The operator picked the second-ranked candidate after a failed retry.
C8_Witness ==
    /\ pc = "Write"
    /\ how = "prompt"
    /\ attempts = 2
    /\ int(choice_str).value = 2
    /\ most_common_int = Null

\* The state and the step parts of C9.
C9_LengthState ==
    /\ pc \in {"Column", "Vote", "Retry", "Escalate", "Prompt", "Write"} =>
          /\ output.exists
          /\ Len(output.data) = bytes_processed + i
          /\ i < chunk_len
          /\ bytes_processed + i < first_file_size
    /\ pc = "Loop" =>
          /\ output.exists
          /\ Len(output.data) = bytes_processed
          /\ bytes_processed <= first_file_size
    /\ pc = "Completed" =>
          /\ output.exists
          /\ Len(output.data) = first_file_size
          /\ exit_status = 0
C9_WriteStep ==
    /\ (pc = "Write" /\ pc' \in Streaming) =>
          /\ output'.data = Append(output.data, most_common_int)
          /\ Len(output'.data) = bytes_processed + i + 1
    /\ (pc \in Streaming \ {"Write"} /\ pc' \in Streaming) => output' = output
    /\ pc' = "Completed" => output' = output
\* C9: offsets are committed in increasing order, one byte each: the output
\* always holds one byte per offset processed, each write appends the byte
\* decided for the current offset, and a completed run leaves an output as
\* long as every input, for every chunk size.
C9_OutputMatchesInputLength == []C9_LengthState /\ [][C9_WriteStep]_vars
\* A run over files of three bytes completed with chunks of two.
C9_Witness ==
    /\ pc = "Completed"
    /\ first_file_size = 3
    /\ chunk_size = 2
    /\ num_files >= 2
    /\ discrepancy_count >= 1

\* The state and the step parts of C10.
C10_WinnerState ==
    pc = "Write" =>
        /\ most_common_int \in Held(bytes_at_position)
        /\ how \in {"fast", "vote", "retry", "prompt"}
        /\ how = "vote" => UniqueTop(bytes_at_position, most_common_int)
        /\ how = "retry" =>
              /\ most_common_int # Null
              /\ UniqueTop(NonNull(bytes_at_position), most_common_int)
C10_WinnerStep ==
    (output'.data # output.data /\ output'.exists /\ pc # "OpenOutput") =>
        /\ pc = "Write"
        /\ Len(output'.data) = Len(output.data) + 1
        /\ output'.data[Len(output'.data)] \in Held(bytes_at_position)
\* C10: every byte written is held by some input file at that offset; chosen
\* without the prompt at a disagreeing offset it is the one strictly most
\* frequent value of the column voted on, so after a retry it is never 0x00.
C10_NoDefaultWinner == []C10_WinnerState /\ [][C10_WinnerStep]_vars
\* The retry resolved a column in which 0x00 was as frequent as the winner.
C10_Witness ==
    /\ pc = "Write"
    /\ how = "retry"
    /\ Occ(bytes_at_position, Null) >= Occ(bytes_at_position, most_common_int)

====
